---- MODULE Spec2Model ----
(***************************************************************************)
(* State-machine model of the draft-order and schedule-assignment code of  *)
(* the league simulation: setSchedule (worker/core/season/setSchedule.ts)  *)
(* and the draft module (genPicks, updateChances, lotterySort, genOrder,   *)
(* genOrderFantasy, getRookieSalaries, selectPlayer, untilUserOrEnd).      *)
(***************************************************************************)
EXTENDS Integers, Sequences, FiniteSets, TLC

(***************************************************************************)
(* Bounds of the model.                                                    *)
(***************************************************************************)
\* Longest list of matchups handed to setSchedule.
MaxGames == 3
\* Number of real teams (ids 0..NumSchedTeams-1) the matchups are drawn from.
NumSchedTeams == 4

\* g.numTeams: the number of teams of the league.
NumTeams == 15
\* Teams 0..NumTeams-1 are tied on win percentage in runs of 1..MaxTie teams.
MaxTie == 2
\* At most this many teams made the playoffs.
MaxPlayoffTeams == 2
\* random.shuffle returns the rotation by 0..MaxShift places, or the reversal.
MaxShift == 1
\* The season's picks were traded 0..MaxTradeShift teams along per round.
MaxTradeShift == 1
\* random.randInt(0, 999) returns one of NumDrawValues evenly spaced values.
NumDrawValues == 5
\* updateChances is applied to arrays of 14..MaxLotteryTeams teams.
MaxLotteryTeams == 15
\* g.numTeams of an expanded league, more than the 30 of the default league.
BigLeagueTeams == 32

\* g.minContract is one of 0, 250, ..., 250 * MinContractSteps.
MinContractSteps == 7
\* g.maxContract is one of 1000, 2000, ..., 1000 * MaxContractSteps.
MaxContractSteps == 20

\* The players store holds players 0..NumPlayers-1.
NumPlayers == 3
\* At most this many picks are left in the queue when the draft is observed.
MaxQueue == 3
\* Math.floor(Math.abs(random.gauss(0, 2))) returns one of 0..MaxSelection.
MaxSelection == 1

\* g.season: the season the draft order is generated for.
season == 2016

(***************************************************************************)
(* Game attributes and player constants the draft code reads.              *)
(***************************************************************************)
\* PHASE.FANTASY_DRAFT, PHASE.REGULAR_SEASON, PHASE.PLAYOFFS, PHASE.DRAFT,
\* PHASE.AFTER_DRAFT and PHASE.FREE_AGENCY, in the order of the season.
PHASE_FANTASY_DRAFT == -1
PHASE_REGULAR_SEASON == 1
PHASE_PLAYOFFS == 3
PHASE_DRAFT == 5
PHASE_AFTER_DRAFT == 6
PHASE_FREE_AGENCY == 8

\* PLAYER.FREE_AGENT, PLAYER.UNDRAFTED and PLAYER.UNDRAFTED_FANTASY_TEMP: the
\* tid of a player who is on no team.
PLAYER_FREE_AGENT == -1
PLAYER_UNDRAFTED == -2
PLAYER_UNDRAFTED_FANTASY_TEMP == -6

\* g.userTid: the team of the user.
userTid == 0

\* The contract limits getRookieSalaries takes as the defaults.
defaultMinContract == 500
defaultMaxContract == 20000

VARIABLES
    league,         \* the teams of the season as getCopy.teams returns them
    teams,          \* genOrder's local array `teams`
    chances,        \* genOrder's local array `chances`
    chancePct,      \* genOrder's local array `chancePct`, in hundredths of a percent
    firstThree,     \* genOrder's local array `firstThree` (indexes from 0)
    lastDraw,       \* `draw` of the current iteration of the drawing loop, or -1
    draftPicks,     \* the draftPicks object store, in dpid order
    picksRead,      \* genOrder's local array `draftPicks`
    orderBuilt,     \* genOrder's local array `draftOrder`
    draftOrder,     \* the draftOrder record (rid 0) of the draftOrder store
    events,         \* the events genOrder handed to logEvent, in order
    pc,             \* the position of the genOrder call
    schedule,       \* idb.cache.schedule: the stored entries, in insertion order
    tids,           \* the argument of the observed setSchedule call
    oldSchedule,    \* what the schedule store held when the call started
    pcSched,        \* "idle" before the observed call, "done" after it
    position,       \* the argument of the genOrderFantasy call: <<>> for
                    \* undefined, <<p>> for the number p
    fantasyTids,    \* genOrderFantasy's local array `tids`
    reshuffles,     \* genOrderFantasy's local `i`: the reshuffles so far
    pcF,            \* the position of the genOrderFantasy call
    phase,          \* g.phase
    nextPhase,      \* g.nextPhase: <<>> for null, <<p>> for the phase p
    autoPlaySeasons,\* g.autoPlaySeasons
    minContract,    \* g.minContract
    maxContract,    \* g.maxContract
    players,        \* the players store: pid -> player record
    playersAll,     \* untilUserOrEnd's local array `playersAll` (pids)
    pids,           \* untilUserOrEnd's local array `pids`
    pcU,            \* the position of the untilUserOrEnd call
    atCall,         \* the league as it was when the untilUserOrEnd call began
    resumed,        \* the call began right after an earlier call returned
    rookieSalaries  \* what the observed getRookieSalaries call returned

schedVars == <<schedule, tids, oldSchedule, pcSched>>

draftVars == <<league, teams, chances, chancePct, firstThree, lastDraw, draftPicks,
               picksRead, orderBuilt, draftOrder, events, pc>>

fantasyVars == <<position, fantasyTids, reshuffles, pcF>>

gameVars == <<phase, nextPhase, autoPlaySeasons, minContract, maxContract>>

progVars == <<players, playersAll, pids, pcU, atCall, resumed>>

salaryVars == <<rookieSalaries>>

vars == <<league, teams, chances, chancePct, firstThree, lastDraw, draftPicks,
          picksRead, orderBuilt, draftOrder, events, pc,
          schedule, tids, oldSchedule, pcSched,
          position, fantasyTids, reshuffles, pcF,
          phase, nextPhase, autoPlaySeasons, minContract, maxContract,
          players, playersAll, pids, pcU, atCall, resumed,
          rookieSalaries>>

(***************************************************************************)
(* Generic helpers.                                                        *)
(***************************************************************************)
Range(s) == {s[i] : i \in DOMAIN s}

RECURSIVE SumSeq(_)
\* a.reduce((a, b) => a + b)
SumSeq(s) == IF s = <<>> THEN 0 ELSE s[1] + SumSeq(Tail(s))

\* Array.prototype.sort, with cmp[<<j, i>>] the comparator's result for
\* (s[j], s[i]) (negative: s[j] goes first); elements the comparator calls
\* equal keep their order.
arraySort(s, cmp) ==
    LET before(i) == {j \in DOMAIN s :
                        \/ cmp[<<j, i>>] < 0
                        \/ cmp[<<j, i>>] = 0 /\ j < i}
        rank == [i \in DOMAIN s |-> Cardinality(before(i))]
    IN  [k \in DOMAIN s |-> s[CHOOSE i \in DOMAIN s : rank[i] = k - 1]]

RECURSIVE SeqsUpTo(_, _)
\* All sequences over S of length 0..n.
SeqsUpTo(S, n) ==
    IF n = 0 THEN {<<>>}
    ELSE LET shorter == SeqsUpTo(S, n - 1)
         IN  shorter \cup {Append(s, x) : s \in {t \in shorter : Len(t) = n - 1}, x \in S}

(***************************************************************************)
(* The draft lottery: lotterySort and updateChances.                       *)
(***************************************************************************)
\* The base weights genOrder starts from.
chancesTable == <<250, 199, 156, 119, 88, 63, 43, 28, 17, 11, 8, 7, 6, 5>>

\* seasonAttrs.playoffRoundsWon >= 0 (false for the value of a team that
\* missed the playoffs).
madePlayoffs(t) == t.playoffRoundsWon >= 0

\* A comparator that does not look at playoff participation.
lotteryCmpWinpOnly(a, b) ==
    LET r == a.winp - b.winp
    IN  IF r = 0 THEN a.randVal - b.randVal ELSE r

\* The comparator of the sort in lotterySort.
lotteryCmp(a, b) ==
    LET r1 == IF madePlayoffs(a) /\ ~madePlayoffs(b) THEN 1 ELSE 0
        r2 == IF ~madePlayoffs(a) /\ madePlayoffs(b) THEN -1 ELSE r1
        r3 == IF r2 = 0 THEN a.winp - b.winp ELSE r2
    IN  IF r3 = 0 THEN a.randVal - b.randVal ELSE r3

\* lotterySort(teams), with randValues the shuffled _.range(g.numTeams):
\* team i gets randValues[i], then the array is sorted.
lotterySort(ts, randValues) ==
    LET valued == [i \in DOMAIN ts |->
                      [tid |-> ts[i].tid, winp |-> ts[i].winp,
                       playoffRoundsWon |-> ts[i].playoffRoundsWon,
                       randVal |-> randValues[i]]]
    IN  arraySort(valued, [p \in (DOMAIN ts) \X (DOMAIN ts) |->
                              lotteryCmp(valued[p[1]], valued[p[2]])])

RECURSIVE sortedValues(_)
\* The values of a set of numbers in ascending order.
sortedValues(S) ==
    IF S = {} THEN <<>>
    ELSE LET m == CHOOSE x \in S : \A y \in S : x <= y
         IN  <<m>> \o sortedValues(S \ {m})

\* _.sortBy(_.pairs(_.countBy(teams, t => t.seasonAttrs.winp)), x => Number(x[0])):
\* the pairs <<winp, number of teams with that winp>>, by ascending winp.
countByWinp(ts) ==
    LET ws == sortedValues({ts[i].winp : i \in DOMAIN ts})
    IN  [k \in DOMAIN ws |->
            <<ws[k], Cardinality({i \in DOMAIN ts : ts[i].winp = ws[k]})>>]

\* The remainder a version that never distributes it works with.
groupRemainderDropped(total, val, isFinal) == 0

\* let remainder = (isFinal) ? total % val : 0
groupRemainder(total, val, isFinal) == IF isFinal THEN total % val ELSE 0

RECURSIVE updateChancesLoop(_, _, _, _, _)
\* The for loop of updateChances from group k on (k from 1), tc teams counted
\* so far.  Without isFinal the new value is the fraction total / val.
updateChancesLoop(ch, wps, k, tc, isFinal) ==
    IF k > Len(wps) THEN ch
    ELSE LET val0 == wps[k][2]
             val == IF val0 > 1 /\ tc + val0 >= Len(ch)
                    THEN val0 - (tc + val0 - Len(ch))
                    ELSE val0
             total == SumSeq(SubSeq(ch, tc + 1, tc + val))
             remainder == groupRemainder(total, val, isFinal)
             \* (total - remainder) / val; a whole number only when the
             \* remainder was taken out
             newVal == (total - remainder) \div val
             ch2 == IF val0 > 1
                    THEN [i \in DOMAIN ch |->
                            IF tc < i /\ i <= tc + val
                            THEN IF isFinal
                                 THEN newVal + (IF i - tc <= remainder THEN 1 ELSE 0)
                                 ELSE [num |-> total, den |-> val]
                            ELSE ch[i]]
                    ELSE ch
             tc2 == tc + val
         IN  IF tc2 >= Len(ch) THEN ch2
             ELSE updateChancesLoop(ch2, wps, k + 1, tc2, isFinal)

\* updateChances(chances, teams, isFinal): the array it leaves in `chances`.
updateChances(ch, ts, isFinal) ==
    updateChancesLoop(ch, countByWinp(ts), 1, 0, isFinal)

\* The cumulative sum genOrder takes of chances in place.
cumsum(ch) == [i \in DOMAIN ch |-> SumSeq(SubSeq(ch, 1, i))]

\* chances.findIndex(chance => chance > draw): the index from 0, or -1.
findIndex(ch, draw) ==
    IF \E i \in DOMAIN ch : ch[i] > draw
    THEN (CHOOSE i \in DOMAIN ch :
              ch[i] > draw /\ \A j \in 1..(i - 1) : ~(ch[j] > draw)) - 1
    ELSE -1

(***************************************************************************)
(* setSchedule                                                             *)
(***************************************************************************)
\* The all-star placeholder matchup [homeTid, awayTid] = [-1, -2].
AllStarPair == <<-1, -2>>

\* The matchups an input list is drawn from: every ordered pair of two
\* different real teams, and the all-star placeholder.
Matchups ==
    {m \in (0..(NumSchedTeams - 1)) \X (0..(NumSchedTeams - 1)) : m[1] # m[2]}
        \cup {AllStarPair}

ScheduleInputs == SeqsUpTo(Matchups, MaxGames)

\* A store that keeps its entries where idb.cache.schedule.clear() empties it.
scheduleClearKeeps(store) == store

\* idb.cache.schedule.clear(): the store without any of its entries.
scheduleClear(store) == <<>>

\* The day-boundary test without its dayTids.has(awayTid) disjunct.
startsNewDayHomeOnly(dayTids, homeTid, awayTid, allStarGame, prevDayAllStarGame) ==
    \/ homeTid \in dayTids
    \/ allStarGame
    \/ prevDayAllStarGame

\* The day-boundary test without its prevDayAllStarGame disjunct.
startsNewDayNoPrev(dayTids, homeTid, awayTid, allStarGame, prevDayAllStarGame) ==
    \/ homeTid \in dayTids
    \/ awayTid \in dayTids
    \/ allStarGame

\* The condition of the if in the loop: the matchup opens a new day.
startsNewDay(dayTids, homeTid, awayTid, allStarGame, prevDayAllStarGame) ==
    \/ homeTid \in dayTids
    \/ awayTid \in dayTids
    \/ allStarGame
    \/ prevDayAllStarGame

RECURSIVE scheduleLoop(_, _, _, _, _)
\* The for loop of setSchedule from matchup i on: the entries it adds, given
\* the loop's locals dayTids, day and prevDayAllStarGame.
scheduleLoop(in, i, dayTids, day, prevDayAllStarGame) ==
    IF i > Len(in) THEN <<>>
    ELSE LET homeTid == in[i][1]
             awayTid == in[i][2]
             allStarGame == awayTid = -2 /\ homeTid = -1
             newDay == startsNewDay(dayTids, homeTid, awayTid,
                                    allStarGame, prevDayAllStarGame)
             day2 == IF newDay THEN day + 1 ELSE day
             dayTids2 == (IF newDay THEN {} ELSE dayTids) \cup {homeTid, awayTid}
         IN  <<[day |-> day2, homeTid |-> homeTid, awayTid |-> awayTid]>>
                 \o scheduleLoop(in, i + 1, dayTids2, day2, allStarGame)

\* The store after setSchedule(in) ran on a store holding `store`.
setSchedule(store, in) ==
    scheduleClear(store) \o scheduleLoop(in, 1, {}, 1, FALSE)

\* Contents the store can hold when the observed call starts: nothing, or
\* what an earlier setSchedule call left.
PriorTids == {<<>>, <<AllStarPair, <<1, 0>>, <<3, 2>>>>}

SchedIdle ==
    /\ schedule = <<>>
    /\ tids = <<>>
    /\ oldSchedule = <<>>
    /\ pcSched = "idle"

DraftIdle ==
    /\ league = <<>>
    /\ teams = <<>>
    /\ chances = <<>>
    /\ firstThree = <<>>
    /\ lastDraw = -1
    /\ chancePct = <<>>
    /\ events = <<>>
    /\ draftPicks = <<>>
    /\ picksRead = <<>>
    /\ orderBuilt = <<>>
    /\ draftOrder = <<>>
    /\ pc = "idle"

\* No genOrderFantasy call has been made.
FantasyIdle ==
    /\ position = <<>>
    /\ fantasyTids = <<>>
    /\ reshuffles = 0
    /\ pcF = "idle"

\* The game attributes of a league in its draft with the default contract
\* limits.
GameIdle ==
    /\ phase = PHASE_DRAFT
    /\ nextPhase = <<>>
    /\ autoPlaySeasons = 0
    /\ minContract = defaultMinContract
    /\ maxContract = defaultMaxContract

\* No untilUserOrEnd call has been made and no player is in the store.
ProgIdle ==
    /\ players = <<>>
    /\ playersAll = <<>>
    /\ pids = <<>>
    /\ pcU = "idle"
    /\ atCall = [players |-> <<>>, draftOrder |-> <<>>, phase |-> PHASE_DRAFT,
                 nextPhase |-> <<>>]
    /\ resumed = FALSE

\* No getRookieSalaries call is observed.
SalaryIdle == rookieSalaries = <<>>

InitSchedule ==
    /\ \E p \in PriorTids : schedule = setSchedule(<<>>, p)
    /\ tids = <<>>
    /\ oldSchedule = <<>>
    /\ pcSched = "idle"
    /\ DraftIdle
    /\ FantasyIdle /\ GameIdle /\ ProgIdle /\ SalaryIdle

\* One call setSchedule(in).  The getUpcoming/toUI("mergeGames") tail of the
\* handler only pushes a projection to the UI and touches no league state.
SetSchedule ==
    /\ pcSched = "idle"
    /\ \E in \in ScheduleInputs :
          /\ tids' = in
          /\ schedule' = setSchedule(schedule, in)
    /\ oldSchedule' = schedule
    /\ pcSched' = "done"
    /\ UNCHANGED <<draftVars, fantasyVars, gameVars, progVars, salaryVars>>

NextSchedule == SetSchedule

SpecSchedule == InitSchedule /\ [][NextSchedule]_vars

(***************************************************************************)
(* The draftPicks store and genOrder.                                      *)
(***************************************************************************)
\* The key an added record gets from the store's auto-incremented dpid.
nextDpid(store) ==
    IF store = <<>> THEN 1
    ELSE LET dpids == {store[i].dpid : i \in DOMAIN store}
         IN  1 + (CHOOSE m \in dpids : \A d \in dpids : d <= m)

\* genPicks(season): the store after one pick per team and round was added,
\* tid outermost, round 1 before round 2.
genPicks(store, yr) ==
    LET first == nextDpid(store)
    IN  store \o [k \in 1..(2 * NumTeams) |->
                [dpid |-> first + k - 1,
                 tid |-> (k - 1) \div 2,
                 originalTid |-> (k - 1) \div 2,
                 round |-> ((k - 1) % 2) + 1,
                 season |-> yr]]

\* A test that finds the picks missing whatever was read.
picksMissingAlways(dps) == TRUE

\* draftPicks.length === 0: no pick of the season was read.
picksMissing(dps) == Len(dps) = 0

\* idb.cache.indexGetAll('draftPicksBySeason', season)
draftPicksBySeason(store, yr) == SelectSeq(store, LAMBDA dp : dp.season = yr)

\* A delete loop that starts at the second record of dps.
deleteDraftPicksSkipFirst(store, dps) ==
    LET deleted == {dps[i].dpid : i \in 2..Len(dps)}
    IN  SelectSeq(store, LAMBDA dp : dp.dpid \notin deleted)

\* idb.cache.delete('draftPicks', dpid) for every record of dps.
deleteDraftPicks(store, dps) ==
    LET deleted == {dps[i].dpid : i \in DOMAIN dps}
    IN  SelectSeq(store, LAMBDA dp : dp.dpid \notin deleted)

\* draftPicksIndexed: for each <<originalTid, round>> of dps the record
\* {tid} of the last pick of dps with that original team and round.
draftPicksIndexed(dps) ==
    [key \in {<<dps[i].originalTid, dps[i].round>> : i \in DOMAIN dps} |->
        LET written == {i \in DOMAIN dps : <<dps[i].originalTid, dps[i].round>> = key}
            last == CHOOSE i \in written : \A j \in written : j <= i
        IN  [tid |-> dps[last].tid]]

\* A second comparator that breaks ties by ascending randVal, as the first.
round2CmpAscending(a, b) ==
    LET r == a.winp - b.winp
    IN  IF r = 0 THEN a.randVal - b.randVal ELSE r

\* The comparator of the second sort of genOrder: by winp, ties by
\* descending randVal.
round2Cmp(a, b) ==
    LET r == a.winp - b.winp
    IN  IF r = 0 THEN b.randVal - a.randVal ELSE r

\* A first round whose second loop does not skip the lottery winners.
firstRoundNoSkip(ts, three, indexed) ==
    LET winners == [i \in DOMAIN three |->
                       [round |-> 1, pick |-> i,
                        tid |-> indexed[<<ts[three[i] + 1].tid, 1>>].tid,
                        originalTid |-> ts[three[i] + 1].tid]]
    IN  winners \o [k \in DOMAIN ts |->
                       [round |-> 1, pick |-> 3 + k,
                        tid |-> indexed[<<ts[k].tid, 1>>].tid,
                        originalTid |-> ts[k].tid]]

\* The round-1 entries: the lottery winners as picks 1..3, then the other
\* teams in the order of `teams` from pick 4 on.
firstRound(ts, three, indexed) ==
    LET winners == [i \in DOMAIN three |->
                       [round |-> 1, pick |-> i,
                        tid |-> indexed[<<ts[three[i] + 1].tid, 1>>].tid,
                        originalTid |-> ts[three[i] + 1].tid]]
        others == SelectSeq([i \in DOMAIN ts |-> i - 1],
                            LAMBDA i : i \notin Range(three))
    IN  winners \o [k \in DOMAIN others |->
                       [round |-> 1, pick |-> 3 + k,
                        tid |-> indexed[<<ts[others[k] + 1].tid, 1>>].tid,
                        originalTid |-> ts[others[k] + 1].tid]]

\* A second round that looks up the owner of the team's round-1 pick.
secondRoundOwnerOfFirst(ts, indexed) ==
    [i \in DOMAIN ts |->
        [round |-> 2, pick |-> i,
         tid |-> indexed[<<ts[i].tid, 1>>].tid,
         originalTid |-> ts[i].tid]]

\* The round-2 entries, from `teams` as the second sort left it.
secondRound(ts, indexed) ==
    [i \in DOMAIN ts |->
        [round |-> 2, pick |-> i,
         tid |-> indexed[<<ts[i].tid, 2>>].tid,
         originalTid |-> ts[i].tid]]

\* A test that never finds the drawn index among the earlier winners.
alreadyDrawnNever(three, i) == FALSE

\* firstThree.includes(i)
alreadyDrawn(three, i) == i \in Range(three)

\* What random.shuffle can make of _.range(n).
ShufflesOf(n) ==
    {[i \in 1..n |-> (i - 1 + k) % n] : k \in 0..MaxShift}
        \cup {[i \in 1..n |-> n - i]}

\* What random.shuffle can make of _.range(g.numTeams).
Shuffles == ShufflesOf(NumTeams)

\* What random.randInt(0, 999) can return.
DrawValues == {(k * 999) \div (NumDrawValues - 1) : k \in 0..(NumDrawValues - 1)}

\* The teams of a season: team t has win percentage t \div tie (runs of `tie`
\* teams are tied), and every second team from NumTeams-2 downwards, np
\* of them, made the playoffs.
LeagueOf(tie, np) ==
    [i \in 1..NumTeams |->
        [tid |-> i - 1,
         winp |-> (i - 1) \div tie,
         playoffRoundsWon |->
            IF (i - 1) \in {NumTeams - 2 * j : j \in 1..np} THEN 0 ELSE -1]]

\* The season's picks as genPicks created them, then traded: the round-r pick
\* of team o is owned by team (o + shift * r) % NumTeams.
SeasonPicks(shift) ==
    LET own == genPicks(<<>>, season)
    IN  [k \in DOMAIN own |->
            [own[k] EXCEPT !.tid = (own[k].originalTid + shift * own[k].round) % NumTeams]]

\* A draft order left in the store by the previous season.
StaleOrder == <<[round |-> 2, pick |-> NumTeams, tid |-> 0, originalTid |-> 1]>>

InitDraft ==
    /\ \E tie \in 1..MaxTie : \E np \in 0..MaxPlayoffTeams : league = LeagueOf(tie, np)
    /\ teams = <<>>
    /\ chances = <<>>
    /\ firstThree = <<>>
    /\ lastDraw = -1
    /\ chancePct = <<>>
    /\ events = <<>>
    /\ \/ draftPicks = genPicks(<<>>, season + 1)
       \/ \E shift \in 0..MaxTradeShift :
             draftPicks = genPicks(SeasonPicks(shift), season + 1)
    /\ picksRead = <<>>
    /\ orderBuilt = <<>>
    /\ draftOrder = StaleOrder
    /\ pc = "idle"
    /\ SchedIdle
    /\ FantasyIdle /\ GameIdle /\ ProgIdle /\ SalaryIdle

\* chances.map(c => (c / chanceTotal) * 100), with chanceTotal the sum of the
\* chances; the percentages are kept in hundredths of a percent.
chancePctOf(ch) ==
    LET chanceTotal == SumSeq(ch)
    IN  [i \in DOMAIN ch |-> (ch[i] * 100 * 100) \div chanceTotal]

\* logAction(tid, lotteryLogTxt(tid, type, number)): the event logged.
logAction(tm, type, number) ==
    [type |-> type, tid |-> tm, number |-> number,
     showNotification |-> (tm = userTid)]

\* logLotteryChances(chances, teams, draftOrder): one 'chance' event per
\* entry of chances that has a team, for the owner of the team's round-1 pick.
logLotteryChances(pct, ts, indexed) ==
    LET withTeam == SelectSeq([i \in DOMAIN pct |-> i], LAMBDA i : i - 1 < Len(ts))
    IN  [k \in DOMAIN withTeam |->
            logAction(indexed[<<ts[withTeam[k]].tid, 1>>].tid, "chance",
                      pct[withTeam[k]])]

\* teams.find(t => t.tid === origTm): the first team with that id, an object,
\* as <<value>>; <<>> is undefined.
teamsFind(ts, origTm) ==
    LET hits == {i \in DOMAIN ts : ts[i].tid = origTm}
    IN  IF hits = {} THEN <<>>
        ELSE <<[type |-> "object",
                value |-> ts[CHOOSE i \in hits : \A j \in hits : i <= j]]>>

\* A number as a property key.
numberKey(n) == [type |-> "number", value |-> n]

\* arr[key]: the element when key is a number inside the array, as <<value>>;
\* undefined, <<>>, for every other key.
elementAt(arr, key) ==
    IF key.type = "number" /\ (key.value + 1) \in DOMAIN arr
    THEN <<arr[key.value + 1]>>
    ELSE <<>>

\* x < y on numbers or undefined: false when either is undefined.
lessThan(x, y) == x # <<>> /\ y # <<>> /\ x[1] < y[1]

\* logLotteryWinners(chances, teams, tm, origTm, pick): the events logged,
\* none when the team is not found.
logLotteryWinners(pct, ts, tm, origTm, pick) ==
    LET idx == teamsFind(ts, origTm)
    IN  IF idx = <<>> THEN <<>>
        ELSE LET own == elementAt(pct, idx[1])
                 slot == elementAt(pct, numberKey(pick - 1))
             IN  <<logAction(tm,
                             IF lessThan(own, slot) THEN "movedup"
                             ELSE IF lessThan(slot, own) THEN "moveddown"
                             ELSE "normal",
                             pick)>>

RECURSIVE flatten(_)
\* The concatenation of a sequence of sequences.
flatten(seqs) ==
    IF seqs = <<>> THEN <<>> ELSE Head(seqs) \o flatten(Tail(seqs))

\* The calls of logLotteryWinners in the two loops of the first round: one
\* per lottery winner, then one per other team while pick < 15.
firstRoundEvents(pct, ts, three, indexed) ==
    LET others == SelectSeq([i \in DOMAIN ts |-> i - 1],
                            LAMBDA i : i \notin Range(three))
    IN  flatten([i \in DOMAIN three |->
                    logLotteryWinners(pct, ts,
                                      indexed[<<ts[three[i] + 1].tid, 1>>].tid,
                                      ts[three[i] + 1].tid, i)])
          \o flatten([k \in DOMAIN others |->
                        IF 3 + k < 15
                        THEN logLotteryWinners(pct, ts,
                                               indexed[<<ts[others[k] + 1].tid, 1>>].tid,
                                               ts[others[k] + 1].tid, 3 + k)
                        ELSE <<>>])

\* genOrder up to the cumulative sum: read the teams, lotterySort,
\* updateChances(chances, teams, true), cumsum.
GenOrderLottery ==
    /\ pc = "idle"
    /\ \E randValues \in ShufflesOf(Len(league)) :
          LET sorted == lotterySort(league, randValues)
              updated == updateChances(chancesTable, sorted, TRUE)
          IN  /\ teams' = sorted
              /\ chancePct' = chancePctOf(updated)
              /\ chances' = cumsum(updated)
    /\ firstThree' = <<>>
    /\ pc' = "draw"
    /\ UNCHANGED <<league, lastDraw, draftPicks, picksRead, orderBuilt, draftOrder,
                   events>>
    /\ UNCHANGED <<schedVars, fantasyVars, gameVars, progVars, salaryVars>>

\* One iteration of the while loop that draws the first three picks.  A draw
\* no cumulative chance exceeds gives index -1, and teams[-1].randVal throws.
GenOrderDraw ==
    /\ pc = "draw"
    /\ Len(firstThree) < 3
    /\ \E draw \in DrawValues :
          LET i == findIndex(chances, draw)
          IN  /\ lastDraw' = draw
              /\ IF alreadyDrawn(firstThree, i)
                 THEN UNCHANGED <<teams, firstThree, pc>>
                 ELSE IF i + 1 \in DOMAIN teams
                      THEN /\ teams' = [teams EXCEPT ![i + 1].randVal = @ - 30]
                           /\ firstThree' = Append(firstThree, i)
                           /\ pc' = pc
                      ELSE /\ pc' = "failed"
                           /\ UNCHANGED <<teams, firstThree>>
    /\ UNCHANGED <<league, chancePct, events, chances, draftPicks, picksRead, orderBuilt, draftOrder>>
    /\ UNCHANGED <<schedVars, fantasyVars, gameVars, progVars, salaryVars>>

\* From the end of the while loop to the end of the second-round loop: read
\* the season's picks (generating them when there are none), index them, and
\* build both rounds, logging the chances and the round-1 placements.
GenOrderBuild ==
    /\ pc = "draw"
    /\ ~(Len(firstThree) < 3)
    /\ LET found == draftPicksBySeason(draftPicks, season)
       IN  IF picksMissing(found)
           THEN /\ draftPicks' = genPicks(draftPicks, season)
                /\ picksRead' = draftPicksBySeason(draftPicks', season)
           ELSE /\ draftPicks' = draftPicks
                /\ picksRead' = found
    /\ teams' = arraySort(teams, [p \in (DOMAIN teams) \X (DOMAIN teams) |->
                                      round2Cmp(teams[p[1]], teams[p[2]])])
    /\ \E indexed \in {draftPicksIndexed(picksRead')} :
          /\ orderBuilt' = firstRound(teams, firstThree, indexed)
                             \o secondRound(teams', indexed)
          /\ events' = events \o logLotteryChances(chancePct, teams, indexed)
                              \o firstRoundEvents(chancePct, teams, firstThree, indexed)
    /\ lastDraw' = -1
    /\ pc' = "delete"
    /\ UNCHANGED <<league, chances, chancePct, firstThree, draftOrder>>
    /\ UNCHANGED <<schedVars, fantasyVars, gameVars, progVars, salaryVars>>

\* The loop of awaited deletes of the picks that were read.
GenOrderDelete ==
    /\ pc = "delete"
    /\ draftPicks' = deleteDraftPicks(draftPicks, picksRead)
    /\ pc' = "put"
    /\ UNCHANGED <<league, chancePct, events, teams, chances, firstThree, lastDraw, picksRead,
                   orderBuilt, draftOrder>>
    /\ UNCHANGED <<schedVars, fantasyVars, gameVars, progVars, salaryVars>>

\* idb.cache.put('draftOrder', {rid: 0, draftOrder})
GenOrderPut ==
    /\ pc = "put"
    /\ draftOrder' = orderBuilt
    /\ pc' = "done"
    /\ UNCHANGED <<league, chancePct, events, teams, chances, firstThree, lastDraw, draftPicks,
                   picksRead, orderBuilt>>
    /\ UNCHANGED <<schedVars, fantasyVars, gameVars, progVars, salaryVars>>

\* The arrays lotterySort can hand to updateChances: n teams outside the
\* playoffs in ascending order of win percentage, the win percentage rising
\* from one team to the next exactly at the positions of `steps`, ties in
\* ascending order of randVal.
SortedTeams(n, steps) ==
    [i \in 1..n |->
        [tid |-> i - 1,
         winp |-> Cardinality({j \in steps : j < i}),
         playoffRoundsWon |-> -1,
         randVal |-> i - 1]]

\* A league of Len(chancesTable) teams outside the playoffs, tied on win
\* percentage in runs of `tie`, and one playoff team whose win percentage w
\* is that of one of these runs (a playoff team of a weaker conference).
PlayoffTiedLeague(tie, w) ==
    [i \in 1..(Len(chancesTable) + 1) |->
        IF i <= Len(chancesTable)
        THEN [tid |-> i - 1, winp |-> (i - 1) \div tie, playoffRoundsWon |-> -1]
        ELSE [tid |-> i - 1, winp |-> w, playoffRoundsWon |-> 0]]

InitChances ==
    /\ \/ \E n \in Len(chancesTable)..MaxLotteryTeams :
             \E steps \in SUBSET (1..(n - 1)) : teams = SortedTeams(n, steps)
       \/ \E tie \in 1..MaxTie : \E w \in 0..((Len(chancesTable) - 1) \div tie) :
             \E randValues \in Shuffles :
                teams = lotterySort(PlayoffTiedLeague(tie, w), randValues)
    /\ chances = chancesTable
    /\ league = <<>>
    /\ firstThree = <<>>
    /\ lastDraw = -1
    /\ chancePct = <<>>
    /\ events = <<>>
    /\ draftPicks = <<>>
    /\ picksRead = <<>>
    /\ orderBuilt = <<>>
    /\ draftOrder = <<>>
    /\ pc = "sorted"
    /\ SchedIdle
    /\ FantasyIdle /\ GameIdle /\ ProgIdle /\ SalaryIdle

\* updateChances(chances, teams, true) on the sorted teams.
UpdateChancesFinal ==
    /\ pc = "sorted"
    /\ chances' = updateChances(chances, teams, TRUE)
    /\ pc' = "updated"
    /\ UNCHANGED <<league, chancePct, events, teams, firstThree, lastDraw, draftPicks, picksRead,
                   orderBuilt, draftOrder>>
    /\ UNCHANGED <<schedVars, fantasyVars, gameVars, progVars, salaryVars>>

NextChances == UpdateChancesFinal

SpecChances == InitChances /\ [][NextChances]_vars

Init == InitDraft

Next ==
    \/ GenOrderLottery
    \/ GenOrderDraw
    \/ GenOrderBuild
    \/ GenOrderDelete
    \/ GenOrderPut

Spec == Init /\ [][Next]_vars

\* The teams of an expanded league: team t has win percentage
\* (BigLeagueTeams - 1 - t) \div tie, so the last teams are the worst, and
\* the better half of the teams made the playoffs.
BigLeague(tie) ==
    [i \in 1..BigLeagueTeams |->
        [tid |-> i - 1,
         winp |-> (BigLeagueTeams - i) \div tie,
         playoffRoundsWon |-> IF 2 * i <= BigLeagueTeams THEN 0 ELSE -1]]

\* The season's picks of the expanded league, one per team and round, the
\* round-r pick of team o owned by team (o + shift * r) % BigLeagueTeams.
BigLeaguePicks(shift) ==
    [k \in 1..(2 * BigLeagueTeams) |->
        [dpid |-> k,
         tid |-> ((k - 1) \div 2 + shift * (((k - 1) % 2) + 1)) % BigLeagueTeams,
         originalTid |-> (k - 1) \div 2,
         round |-> ((k - 1) % 2) + 1,
         season |-> season]]

\* genOrder is called in a league of BigLeagueTeams teams whose picks of the
\* season are in the store.
InitBigLeague ==
    /\ \E tie \in 1..MaxTie : league = BigLeague(tie)
    /\ teams = <<>>
    /\ chances = <<>>
    /\ firstThree = <<>>
    /\ lastDraw = -1
    /\ chancePct = <<>>
    /\ events = <<>>
    /\ \E shift \in 0..MaxTradeShift : draftPicks = BigLeaguePicks(shift)
    /\ picksRead = <<>>
    /\ orderBuilt = <<>>
    /\ draftOrder = StaleOrder
    /\ pc = "idle"
    /\ SchedIdle
    /\ FantasyIdle /\ GameIdle /\ ProgIdle /\ SalaryIdle

SpecBigLeague == InitBigLeague /\ [][Next]_vars

(***************************************************************************)
(* genOrderFantasy                                                         *)
(***************************************************************************)
\* The number of rounds of a fantasy draft.
numFantasyRounds == 12
\* The reshuffles genOrderFantasy allows itself.
maxReshuffles == 1000

\* The arguments genOrderFantasy is called with: none, or a number from 0
\* to g.numTeams + 1.
Positions == {<<>>} \cup {<<p>> : p \in 0..(NumTeams + 1)}

\* position !== undefined && position >= 1 && position <= g.numTeams
positionGiven(pos) == pos # <<>> /\ pos[1] >= 1 /\ pos[1] <= NumTeams

\* A loop condition that has no budget.
keepShufflingUnbounded(ts, pos, i) == ts[pos[1]] # userTid

\* tids[position - 1] !== g.userTid && i < 1000
keepShuffling(ts, pos, i) == ts[pos[1]] # userTid /\ i < maxReshuffles

\* The order of the next round when it repeats that of this round.
nextRoundTidsRepeated(ts) == ts

\* tids.reverse()
nextRoundTids(ts) == [i \in DOMAIN ts |-> ts[Len(ts) + 1 - i]]

RECURSIVE fantasyRounds(_, _)
\* The for loop over the rounds from `round` on: the entries it pushes.
fantasyRounds(ts, round) ==
    IF round > numFantasyRounds THEN <<>>
    ELSE [i \in DOMAIN ts |->
             [round |-> round, pick |-> i, tid |-> ts[i], originalTid |-> ts[i]]]
         \o fantasyRounds(nextRoundTids(ts), round + 1)

\* The draft vars of a league whose genOrder is not running.
GenOrderIdle ==
    /\ league = <<>>
    /\ teams = <<>>
    /\ chances = <<>>
    /\ firstThree = <<>>
    /\ lastDraw = -1
    /\ chancePct = <<>>
    /\ events = <<>>
    /\ draftPicks = <<>>
    /\ picksRead = <<>>
    /\ orderBuilt = <<>>
    /\ pc = "idle"

InitFantasy ==
    /\ position = <<>>
    /\ fantasyTids = <<>>
    /\ reshuffles = 0
    /\ pcF = "idle"
    /\ draftOrder = StaleOrder
    /\ GenOrderIdle
    /\ SchedIdle
    /\ GameIdle /\ ProgIdle /\ SalaryIdle

\* genOrderFantasy(position) up to the test of the position: the first
\* shuffle of _.range(g.numTeams).
GenOrderFantasyShuffle ==
    /\ pcF = "idle"
    /\ \E pos \in Positions : position' = pos
    /\ \E shuffled \in Shuffles : fantasyTids' = shuffled
    /\ reshuffles' = 0
    /\ pcF' = "placing"
    /\ UNCHANGED <<draftVars, schedVars, gameVars, progVars, salaryVars>>

\* One iteration of the while loop that looks for the user's position.
GenOrderFantasyReshuffle ==
    /\ pcF = "placing"
    /\ positionGiven(position)
    /\ keepShuffling(fantasyTids, position, reshuffles)
    /\ \E shuffled \in Shuffles : fantasyTids' = shuffled
    /\ reshuffles' = reshuffles + 1
    /\ UNCHANGED <<position, pcF>>
    /\ UNCHANGED <<draftVars, schedVars, gameVars, progVars, salaryVars>>

\* From the end of the while loop to the end of the call: the twelve rounds
\* and the put of the draftOrder record.
GenOrderFantasyPut ==
    /\ pcF = "placing"
    /\ ~(positionGiven(position) /\ keepShuffling(fantasyTids, position, reshuffles))
    /\ draftOrder' = fantasyRounds(fantasyTids, 1)
    /\ pcF' = "done"
    /\ UNCHANGED <<position, fantasyTids, reshuffles>>
    /\ UNCHANGED <<league, chancePct, events, teams, chances, firstThree, lastDraw, draftPicks,
                   picksRead, orderBuilt, pc>>
    /\ UNCHANGED <<schedVars, gameVars, progVars, salaryVars>>

NextFantasy ==
    \/ GenOrderFantasyShuffle
    \/ GenOrderFantasyReshuffle
    \/ GenOrderFantasyPut

SpecFantasy == InitFantasy /\ [][NextFantasy]_vars

(***************************************************************************)
(* getRookieSalaries                                                       *)
(***************************************************************************)
\* The default table, for 60 picks.
defaultRookieSalaries ==
    <<5000, 4500, 4000, 3500, 3000, 2750, 2500, 2250, 2000, 1900, 1800, 1700,
      1600, 1500, 1400, 1300, 1200, 1100, 1000, 1000, 1000, 1000, 1000, 1000,
      1000, 1000, 1000, 1000, 1000, 1000, 500, 500, 500, 500, 500, 500, 500,
      500, 500, 500, 500, 500, 500, 500, 500, 500, 500, 500, 500, 500, 500,
      500, 500, 500, 500, 500, 500, 500, 500, 500>>

\* The two while loops: push 500 until the table has numTeams * 2 entries,
\* or pop until it has no more than that.
resizeSalaries(table, numTeams) ==
    IF numTeams * 2 > Len(table)
    THEN table \o [i \in 1..(numTeams * 2 - Len(table)) |-> 500]
    ELSE SubSeq(table, 1, numTeams * 2)

\* The body of the for loop, in exact arithmetic:
\*   v1 = (v - 500) * (0.25 * maxC - minC) / 4500 + minC
\*      = ((v - 500) * (maxC - 4 * minC) + 4 * 4500 * minC) / (4 * 4500)
\* and Math.round(v1 / 10) * 10, Math.round(z) being floor(z + 1/2).
rescaleSalary(v, minC, maxC) ==
    LET num == (v - 500) * (maxC - 4 * minC) + 4 * 4500 * minC
        den == 4 * 4500 * 10
    IN  ((2 * num + den) \div (2 * den)) * 10

\* getRookieSalaries() in a league of numTeams teams with the contract
\* limits minC and maxC.
getRookieSalaries(numTeams, minC, maxC) ==
    LET table == resizeSalaries(defaultRookieSalaries, numTeams)
    IN  IF minC # defaultMinContract \/ maxC # defaultMaxContract
        THEN [i \in DOMAIN table |-> rescaleSalary(table[i], minC, maxC)]
        ELSE table

InitSalaries ==
    /\ \E k \in 0..MinContractSteps : minContract = 250 * k
    /\ \E k \in 1..MaxContractSteps : maxContract = 1000 * k
    /\ phase = PHASE_DRAFT
    /\ nextPhase = <<>>
    /\ autoPlaySeasons = 0
    /\ rookieSalaries = <<>>
    /\ DraftIdle /\ SchedIdle /\ FantasyIdle /\ ProgIdle

\* One call of getRookieSalaries().
GetRookieSalaries ==
    /\ rookieSalaries = <<>>
    /\ rookieSalaries' = getRookieSalaries(NumTeams, minContract, maxContract)
    /\ UNCHANGED <<draftVars, schedVars, fantasyVars, gameVars, progVars>>

NextSalaries == GetRookieSalaries

SpecSalaries == InitSalaries /\ [][NextSalaries]_vars

(***************************************************************************)
(* selectPlayer and untilUserOrEnd                                         *)
(***************************************************************************)
\* g.userTids: the teams the user controls.
userTids == <<userTid>>

\* g.userTids.includes(tid)
userTidsIncludes(tid) == \E k \in DOMAIN userTids : userTids[k] = tid

\* The draft record of a player no selection has written yet.
noDraft == [round |-> 0, pick |-> 0, tid |-> PLAYER_UNDRAFTED, year |-> 0,
            originalTid |-> PLAYER_UNDRAFTED]

\* The draft record selectPlayer writes (the copies of the ratings left out).
draftRecord(pick) ==
    [round |-> pick.round, pick |-> pick.pick, tid |-> pick.tid,
     year |-> season, originalTid |-> pick.originalTid]

\* An index that forgets the round.
rookieIndexPickOnly(pick) == pick.pick - 1

\* const i = pick.pick - 1 + g.numTeams * (pick.round - 1)
rookieIndex(pick) == pick.pick - 1 + NumTeams * (pick.round - 1)

\* const years = 4 - pick.round
rookieYears(pick) == 4 - pick.round

\* The contract selectPlayer hands to player.setContract.
rookieContract(pick, minC, maxC) ==
    [amount |-> getRookieSalaries(NumTeams, minC, maxC)[rookieIndex(pick) + 1],
     exp |-> season + rookieYears(pick)]

\* g.nextPhase as the operand of <=: null counts as 0.
nextPhaseNumber(np) == IF np = <<>> THEN 0 ELSE np[1]

\* player.addStatsRow(p, ...): one more row in the player's stats.
addStatsRow(p) == [p EXCEPT !.statsRows = @ + 1]

\* selectPlayer(pick, pid) in phase ph with g.nextPhase = np: the players
\* store it leaves.
selectPlayer(ps, pick, pid, ph, np, minC, maxC) ==
    LET p1 == [ps[pid] EXCEPT !.tid = pick.tid]
        p2 == IF ph # PHASE_FANTASY_DRAFT
              THEN [p1 EXCEPT !.draft = draftRecord(pick)]
              ELSE p1
        p3 == IF ph # PHASE_FANTASY_DRAFT
              THEN [p2 EXCEPT !.contract = rookieContract(pick, minC, maxC)]
              ELSE p2
        p4 == IF ph = PHASE_FANTASY_DRAFT /\ nextPhaseNumber(np) <= PHASE_PLAYOFFS
              THEN addStatsRow(p3)
              ELSE p3
    IN  [ps EXCEPT ![pid] = p4]

\* idb.cache.indexGetAll('playersByTid', tid): the pids, in pid order.
playersByTid(ps, tid) == sortedValues({pid \in DOMAIN ps : ps[pid].tid = tid})

\* playersAll.sort((a, b) => b.value - a.value)
sortByValue(ps, all) ==
    arraySort(all, [q \in (DOMAIN all) \X (DOMAIN all) |->
                       ps[all[q[2]]].value - ps[all[q[1]]].value])

\* A test for a user's pick that ignores g.autoPlaySeasons.
stopsAtPickAnySeason(pick, aps) == userTidsIncludes(pick.tid)

\* g.userTids.includes(pick.tid) && g.autoPlaySeasons === 0
stopsAtPick(pick, aps) == userTidsIncludes(pick.tid) /\ aps = 0

\* A splice that removes nothing.
spliceKeeps(all, selection) == all

\* playersAll.splice(selection, 1), selection counted from 0.
splice(all, selection) ==
    SubSeq(all, 1, selection) \o SubSeq(all, selection + 2, Len(all))

\* The first iterate of the fantasy end: player.addToFreeAgents for every
\* player of the undrafted pool.
addToFreeAgents(ps) ==
    [pid \in DOMAIN ps |->
        IF ps[pid].tid = PLAYER_UNDRAFTED
        THEN [ps[pid] EXCEPT !.tid = PLAYER_FREE_AGENT]
        ELSE ps[pid]]

\* A second iterate that releases the displaced players as well.
restoreTempAsFreeAgents(ps) ==
    [pid \in DOMAIN ps |->
        IF ps[pid].tid = PLAYER_UNDRAFTED_FANTASY_TEMP
        THEN [ps[pid] EXCEPT !.tid = PLAYER_FREE_AGENT]
        ELSE ps[pid]]

\* The second iterate: p.tid = PLAYER.UNDRAFTED for every
\* UNDRAFTED_FANTASY_TEMP player.
restoreTemp(ps) ==
    [pid \in DOMAIN ps |->
        IF ps[pid].tid = PLAYER_UNDRAFTED_FANTASY_TEMP
        THEN [ps[pid] EXCEPT !.tid = PLAYER_UNDRAFTED]
        ELSE ps[pid]]

\* phase.newPhase(PHASE.AFTER_DRAFT): the phase it leaves in g.phase.
newPhase(target) == target

\* The last q picks of round r, the picks at the positions of `own` held by
\* the user's team and the others by the team that had them first.
QueueTail(r, q, own) ==
    [i \in 1..q |->
        [round |-> r, pick |-> NumTeams - q + i,
         tid |-> IF i \in own THEN userTid ELSE NumTeams - q + i - 1,
         originalTid |-> NumTeams - q + i - 1]]

\* A prospect of the draft class, with tid `tid`.
Prospect(pid, tid) ==
    [tid |-> tid, value |-> pid, draft |-> noDraft,
     contract |-> [amount |-> defaultMinContract, exp |-> season + 1],
     statsRows |-> 0]

\* A player drafted a season ago, with tid `tid`.
Veteran(pid, tid) ==
    [tid |-> tid, value |-> pid,
     draft |-> [round |-> 1, pick |-> pid + 1, tid |-> 1, year |-> season - 1,
                originalTid |-> 1],
     contract |-> [amount |-> 5000 - 500 * pid, exp |-> season + 2],
     statsRows |-> 1]

\* The players of an ordinary draft with u prospects left: the others were
\* drafted earlier and are on team 1.
DraftPlayers(u) ==
    [pid \in 0..(NumPlayers - 1) |->
        IF pid < u THEN Prospect(pid, PLAYER_UNDRAFTED) ELSE Veteran(pid, 1)]

\* The players of a fantasy draft with u players left in the pool: the
\* others are the prospects the fantasy draft set aside.
FantasyPlayers(u) ==
    [pid \in 0..(NumPlayers - 1) |->
        IF pid < u THEN Veteran(pid, PLAYER_UNDRAFTED)
        ELSE Prospect(pid, PLAYER_UNDRAFTED_FANTASY_TEMP)]

\* The contract limits of the leagues observed.
ContractLimits == {<<defaultMinContract, defaultMaxContract>>, <<750, 30000>>}

\* The phases a fantasy draft can return to.
SavedPhases == {PHASE_REGULAR_SEASON, PHASE_PLAYOFFS, PHASE_DRAFT}

\* The league as an untilUserOrEnd call finds it.
Snapshot ==
    [players |-> players, draftOrder |-> draftOrder, phase |-> phase,
     nextPhase |-> nextPhase]

InitProgression ==
    /\ \E u \in 0..NumPlayers :
          \/ /\ phase = PHASE_DRAFT
             /\ nextPhase = <<>>
             /\ players = DraftPlayers(u)
             /\ \E q \in 0..MaxQueue : \E own \in SUBSET (1..q) : \E r \in 1..2 :
                   draftOrder = QueueTail(r, q, own)
             /\ \E lim \in ContractLimits :
                   minContract = lim[1] /\ maxContract = lim[2]
          \/ /\ phase = PHASE_FANTASY_DRAFT
             /\ \E np \in SavedPhases : nextPhase = <<np>>
             /\ players = FantasyPlayers(u)
             /\ \E q \in 0..MaxQueue : \E own \in SUBSET (1..q) :
                   draftOrder = QueueTail(numFantasyRounds, q, own)
             /\ minContract = defaultMinContract
             /\ maxContract = defaultMaxContract
    /\ autoPlaySeasons \in 0..1
    /\ playersAll = <<>>
    /\ pids = <<>>
    /\ pcU = "idle"
    /\ atCall = [players |-> <<>>, draftOrder |-> <<>>, phase |-> PHASE_DRAFT,
                 nextPhase |-> <<>>]
    /\ resumed = FALSE
    /\ GenOrderIdle /\ SchedIdle /\ FantasyIdle /\ SalaryIdle

\* untilUserOrEnd up to the first autoSelectPlayer(): the undrafted players,
\* sorted by value, and the draft order, which getOrder returns as the array
\* the cache holds.
UntilUserOrEndStart ==
    /\ pcU \in {"idle", "returned"}
    /\ playersAll' = sortByValue(players, playersByTid(players, PLAYER_UNDRAFTED))
    /\ pids' = <<>>
    /\ atCall' = Snapshot
    /\ resumed' = (pcU = "returned")
    /\ pcU' = "auto"
    /\ UNCHANGED <<players, draftOrder, gameVars>>
    /\ UNCHANGED <<league, chancePct, events, teams, chances, firstThree, lastDraw, draftPicks,
                   picksRead, orderBuilt, pc>>
    /\ UNCHANGED <<schedVars, fantasyVars, salaryVars>>

\* autoSelectPlayer() for a pick the call resolves itself: shift the pick,
\* draw the selection and select the player.  playersAll[selection] is
\* undefined when the selection is not below the length of playersAll, and
\* reading its pid throws after the pick was shifted.
AutoSelectPlayer ==
    /\ pcU = "auto"
    /\ draftOrder # <<>>
    /\ ~stopsAtPick(Head(draftOrder), autoPlaySeasons)
    /\ draftOrder' = Tail(draftOrder)
    /\ \E selection \in 0..MaxSelection :
          IF selection < Len(playersAll)
          THEN /\ players' = selectPlayer(players, Head(draftOrder),
                                 playersAll[selection + 1], phase, nextPhase,
                                 minContract, maxContract)
               /\ pids' = Append(pids, playersAll[selection + 1])
               /\ playersAll' = splice(playersAll, selection)
               /\ pcU' = "auto"
          ELSE /\ pcU' = "failed"
               /\ UNCHANGED <<players, pids, playersAll>>
    /\ UNCHANGED <<atCall, resumed, gameVars>>
    /\ UNCHANGED <<league, chancePct, events, teams, chances, firstThree, lastDraw, draftPicks,
                   picksRead, orderBuilt, pc>>
    /\ UNCHANGED <<schedVars, fantasyVars, salaryVars>>

\* autoSelectPlayer() at a pick of the user: the pick is shifted and put
\* back with unshift, and afterDoneAuto is called.
AutoSelectPause ==
    /\ pcU = "auto"
    /\ draftOrder # <<>>
    /\ stopsAtPick(Head(draftOrder), autoPlaySeasons)
    /\ draftOrder' = <<Head(draftOrder)>> \o Tail(draftOrder)
    /\ pcU' = "afterDone"
    /\ UNCHANGED <<players, playersAll, pids, atCall, resumed, gameVars>>
    /\ UNCHANGED <<league, chancePct, events, teams, chances, firstThree, lastDraw, draftPicks,
                   picksRead, orderBuilt, pc>>
    /\ UNCHANGED <<schedVars, fantasyVars, salaryVars>>

\* autoSelectPlayer() with no pick left: afterDoneAuto is called.
AutoSelectEnd ==
    /\ pcU = "auto"
    /\ draftOrder = <<>>
    /\ pcU' = "afterDone"
    /\ UNCHANGED <<players, playersAll, pids, atCall, resumed, gameVars>>
    /\ UNCHANGED <<draftVars, schedVars, fantasyVars, salaryVars>>

\* A test that takes the draft to be over whatever the queue holds.
draftIsOverAlways(order) == TRUE

\* draftOrder.length === 0
draftIsOver(order) == Len(order) = 0

\* afterDoneAuto with picks left: league.updateLastDbChange() and the return
\* of pids.
AfterDoneReturn ==
    /\ pcU = "afterDone"
    /\ ~draftIsOver(draftOrder)
    /\ pcU' = "returned"
    /\ UNCHANGED <<players, playersAll, pids, atCall, resumed, gameVars>>
    /\ UNCHANGED <<draftVars, schedVars, fantasyVars, salaryVars>>

\* afterDoneAuto with no pick left outside the fantasy draft:
\* phase.newPhase(PHASE.AFTER_DRAFT), and the return of pids.
AfterDoneNewPhase ==
    /\ pcU = "afterDone"
    /\ draftIsOver(draftOrder)
    /\ phase # PHASE_FANTASY_DRAFT
    /\ phase' = newPhase(PHASE_AFTER_DRAFT)
    /\ pcU' = "returned"
    /\ UNCHANGED <<nextPhase, autoPlaySeasons, minContract, maxContract>>
    /\ UNCHANGED <<players, playersAll, pids, atCall, resumed>>
    /\ UNCHANGED <<draftVars, schedVars, fantasyVars, salaryVars>>

\* afterDoneAuto with no pick left in the fantasy draft, first iterate: the
\* undrafted players become free agents.
AfterDoneFreeAgents ==
    /\ pcU = "afterDone"
    /\ draftIsOver(draftOrder)
    /\ phase = PHASE_FANTASY_DRAFT
    /\ players' = addToFreeAgents(players)
    /\ pcU' = "restore"
    /\ UNCHANGED <<playersAll, pids, atCall, resumed, gameVars>>
    /\ UNCHANGED <<draftVars, schedVars, fantasyVars, salaryVars>>

\* Second iterate: the players set aside go back to the undrafted pool.
AfterDoneRestore ==
    /\ pcU = "restore"
    /\ players' = restoreTemp(players)
    /\ pcU' = "setPhase"
    /\ UNCHANGED <<playersAll, pids, atCall, resumed, gameVars>>
    /\ UNCHANGED <<draftVars, schedVars, fantasyVars, salaryVars>>

\* league.setGameAttributes({phase: g.nextPhase, nextPhase: null}), and the
\* return of pids.
AfterDoneSetPhase ==
    /\ pcU = "setPhase"
    /\ phase' = nextPhaseNumber(nextPhase)
    /\ nextPhase' = <<>>
    /\ pcU' = "returned"
    /\ UNCHANGED <<autoPlaySeasons, minContract, maxContract>>
    /\ UNCHANGED <<players, playersAll, pids, atCall, resumed>>
    /\ UNCHANGED <<draftVars, schedVars, fantasyVars, salaryVars>>

\* The user drafts player pid with the pick at the head of the queue: the
\* caller takes the pick off the queue and calls selectPlayer(pick, pid).
UserSelectPlayer ==
    /\ pcU \in {"idle", "returned"}
    /\ draftOrder # <<>>
    /\ userTidsIncludes(Head(draftOrder).tid)
    /\ \E pid \in DOMAIN players :
          players' = selectPlayer(players, Head(draftOrder), pid, phase,
                                  nextPhase, minContract, maxContract)
    /\ draftOrder' = Tail(draftOrder)
    /\ pcU' = "idle"
    /\ UNCHANGED <<playersAll, pids, atCall, resumed, gameVars>>
    /\ UNCHANGED <<league, chancePct, events, teams, chances, firstThree, lastDraw, draftPicks,
                   picksRead, orderBuilt, pc>>
    /\ UNCHANGED <<schedVars, fantasyVars, salaryVars>>

NextProgression ==
    \/ UntilUserOrEndStart
    \/ AutoSelectPlayer
    \/ AutoSelectPause
    \/ AutoSelectEnd
    \/ AfterDoneReturn
    \/ AfterDoneNewPhase
    \/ AfterDoneFreeAgents
    \/ AfterDoneRestore
    \/ AfterDoneSetPhase
    \/ UserSelectPlayer

SpecProgression == InitProgression /\ [][NextProgression]_vars

(***************************************************************************)
(* Properties of setSchedule.                                              *)
(***************************************************************************)
\* The team ids of a stored entry.
EntryTids(e) == {e.homeTid, e.awayTid}

IsAllStar(e) == e.homeTid = -1 /\ e.awayTid = -2

\* C1: no team id appears in two different schedule entries that carry the
\* same day number.
C1_NoTeamTwiceADay ==
    \A i \in DOMAIN schedule : \A j \in DOMAIN schedule :
        (i # j /\ schedule[i].day = schedule[j].day)
            => EntryTids(schedule[i]) \cap EntryTids(schedule[j]) = {}

\* C1 witness: a call put two matchups on one day and moved a later matchup
\* that repeats one of their teams to another day.
C1_Witness ==
    /\ pcSched = "done"
    /\ \E i \in DOMAIN schedule : \E j \in DOMAIN schedule : \E k \in DOMAIN schedule :
          /\ i < j /\ j < k
          /\ schedule[i].day = schedule[j].day
          /\ EntryTids(schedule[k]) \cap EntryTids(schedule[i]) # {}
          /\ schedule[k].day # schedule[i].day

\* C2 as stated: the all-star matchup is the only entry on its day, and the
\* matchup right after it is also the only entry on its own day.
C2_AllStarAndNextAlone ==
    pcSched = "done" =>
        \A i \in DOMAIN schedule :
            IsAllStar(schedule[i]) =>
                /\ \A j \in DOMAIN schedule :
                      j # i => schedule[j].day # schedule[i].day
                /\ i < Len(schedule) =>
                      \A j \in DOMAIN schedule :
                          j # i + 1 => schedule[j].day # schedule[i + 1].day

\* C2 amended: the all-star matchup is the only entry on its day, and the
\* matchup right after it opens the next day (no earlier entry is on that
\* day); matchups after that one may join its day.
C2_AllStarAloneNextOpensDay ==
    pcSched = "done" =>
        \A i \in DOMAIN schedule :
            IsAllStar(schedule[i]) =>
                /\ \A j \in DOMAIN schedule :
                      j # i => schedule[j].day # schedule[i].day
                /\ i < Len(schedule) =>
                      /\ schedule[i + 1].day = schedule[i].day + 1
                      /\ \A j \in 1..i : schedule[j].day # schedule[i + 1].day

\* C2 witness: an all-star matchup is followed by two matchups, and the second
\* of them shares the day of the first.
C2_Witness ==
    /\ pcSched = "done"
    /\ \E i \in DOMAIN schedule :
          /\ IsAllStar(schedule[i])
          /\ i + 2 <= Len(schedule)
          /\ schedule[i + 2].day = schedule[i + 1].day

\* The day the loop is on when it reaches matchup i (1 before the first).
DayBefore(i) == IF i = 1 THEN 1 ELSE schedule[i - 1].day

\* The teams of the earlier entries stored on that day.
TidsOnDayBefore(i) ==
    UNION {EntryTids(schedule[j]) : j \in {k \in 1..(i - 1) : schedule[k].day = DayBefore(i)}}

\* C3: days are assigned greedily in input order: a matchup stays on the day
\* of the previous matchup when neither of its teams plays on that day, it is
\* not the all-star pair and the previous matchup was not the all-star pair;
\* otherwise it gets the previous day plus one.  [[0,1],[2,3],[0,2]] gives
\* days 1, 1, 2.
C3_GreedyDays ==
    pcSched = "done" =>
        /\ Len(schedule) = Len(tids)
        /\ \A i \in DOMAIN tids :
              LET stays == /\ tids[i][1] \notin TidsOnDayBefore(i)
                           /\ tids[i][2] \notin TidsOnDayBefore(i)
                           /\ tids[i] # AllStarPair
                           /\ ~(i > 1 /\ tids[i - 1] = AllStarPair)
              IN  schedule[i].day = IF stays THEN DayBefore(i) ELSE DayBefore(i) + 1
        /\ tids = <<<<0, 1>>, <<2, 3>>, <<0, 2>>>>
              => <<schedule[1].day, schedule[2].day, schedule[3].day>> = <<1, 1, 2>>

\* C3 witness: the call with [[0,1],[2,3],[0,2]] has completed.
C3_Witness ==
    /\ pcSched = "done"
    /\ tids = <<<<0, 1>>, <<2, 3>>, <<0, 2>>>>
    /\ Len(schedule) = 3

\* C4: after setSchedule(tids) the store holds exactly one entry per input
\* matchup, in input order, with the matchup's homeTid and awayTid, and
\* nothing of the earlier schedule.
C4_FlatOverwrite ==
    pcSched = "done" =>
        /\ Len(schedule) = Len(tids)
        /\ \A i \in DOMAIN tids :
              /\ schedule[i].homeTid = tids[i][1]
              /\ schedule[i].awayTid = tids[i][2]

\* C4 witness: the call ran on a store that held more entries than the new
\* input has matchups.
C4_Witness ==
    /\ pcSched = "done"
    /\ Len(tids) > 0
    /\ Len(oldSchedule) > Len(tids)
    /\ Len(schedule) = Len(tids)

(***************************************************************************)
(* Properties of genOrder.                                                 *)
(***************************************************************************)
\* The entries of a draft order that belong to round r, in stored order.
RoundEntries(order, r) == SelectSeq(order, LAMBDA e : e.round = r)

\* The team record of team id t in the league.
TeamOf(t) == league[CHOOSE i \in DOMAIN league : league[i].tid = t]

\* C5: after genOrder the stored draft order has exactly numTeams round-1
\* entries and exactly numTeams round-2 entries; in each round every team is
\* originalTid exactly once and the pick numbers are exactly 1..numTeams.
C5_RoundsCoverTeams ==
    pc = "done" =>
        /\ Len(draftOrder) = 2 * NumTeams
        /\ \A r \in {1, 2} :
              LET es == RoundEntries(draftOrder, r)
              IN  /\ Len(es) = NumTeams
                  /\ {es[i].originalTid : i \in DOMAIN es} = 0..(NumTeams - 1)
                  /\ {es[i].pick : i \in DOMAIN es} = 1..NumTeams

\* C5 witness: genOrder finished a run in which the first pick went to a
\* team that was not first in the lottery order.
C5_Witness ==
    /\ pc = "done"
    /\ Len(draftOrder) = 2 * NumTeams
    /\ firstThree[1] # 0
    /\ draftOrder[1].pick = 1

\* C6: after genOrder no DraftPick record of the current season is left in
\* the store, and no step of genOrder changes the records of other seasons.
C6_SeasonPicksDeleted ==
    /\ [](pc = "done" => draftPicksBySeason(draftPicks, season) = <<>>)
    /\ [][SelectSeq(draftPicks', LAMBDA dp : dp.season # season)
            = SelectSeq(draftPicks, LAMBDA dp : dp.season # season)]_vars

\* C6 witness: genOrder finished after it had to regenerate the season's
\* picks (they were added behind the records of the next season), and the
\* records of the next season are still in the store.
C6_Witness ==
    /\ pc = "done"
    /\ picksRead # <<>>
    /\ draftPicks # <<>>
    /\ \A i \in DOMAIN draftPicks : draftPicks[i].dpid < picksRead[1].dpid

\* C7: every entry genOrder writes with round r and originalTid o has the
\* tid of the season's DraftPick record with originalTid o and round r.
C7_OwnerFromDraftPick ==
    pc = "done" =>
        \A k \in DOMAIN draftOrder :
            LET e == draftOrder[k]
                recs == {i \in DOMAIN picksRead :
                            /\ picksRead[i].originalTid = e.originalTid
                            /\ picksRead[i].round = e.round
                            /\ picksRead[i].season = season}
            IN  /\ recs # {}
                /\ \A i \in recs : e.tid = picksRead[i].tid

\* C7 witness: a stored entry is drafted by a team other than the one that
\* earned the slot.
C7_Witness ==
    /\ pc = "done"
    /\ \E k \in DOMAIN draftOrder :
          /\ draftOrder[k].tid # draftOrder[k].originalTid
          /\ draftOrder[k].round = 2

\* A step of the drawing loop: a draw that lands on an already chosen index
\* changes neither the winners nor the teams and leaves the loop running;
\* any other draw appends its index.
DrawStepRejectsRepeat ==
    (pc = "draw" /\ Len(firstThree) < 3) =>
        LET d == findIndex(chances, lastDraw')
        IN  IF d \in Range(firstThree)
            THEN firstThree' = firstThree /\ teams' = teams /\ pc' = "draw"
            ELSE firstThree' = Append(firstThree, d)

\* The step that builds the order: picks 1..3 of round 1 belong to the teams
\* at the drawn indexes of the lottery order, in the order drawn.
BuildStepPlacesWinners ==
    (pc = "draw" /\ pc' = "delete") =>
        \A k \in 1..3 :
            /\ orderBuilt'[k].round = 1
            /\ orderBuilt'[k].pick = k
            /\ orderBuilt'[k].originalTid = teams[firstThree[k] + 1].tid

\* In every state the drawn indexes are distinct, and the stored order
\* starts with the three built winner entries, of three different teams.
WinnersDistinct ==
    /\ Len(firstThree) <= 3
    /\ \A i \in DOMAIN firstThree : \A j \in DOMAIN firstThree :
          i # j => firstThree[i] # firstThree[j]
    /\ pc = "done" =>
          /\ \A i \in 1..3 : \A j \in 1..3 :
                i # j => draftOrder[i].originalTid # draftOrder[j].originalTid
          /\ \A i \in 1..3 : draftOrder[i] = orderBuilt[i]

\* C8: the three lottery winners are mutually distinct teams, they hold
\* round-1 picks 1, 2 and 3 in the order drawn, and a draw that lands on an
\* already chosen team is rejected and followed by another draw.
C8_DistinctWinners ==
    /\ []WinnersDistinct
    /\ [][DrawStepRejectsRepeat /\ BuildStepPlacesWinners]_vars

\* C8 witness: two winners are chosen and the last draw landed on the first
\* of them again.
C8_Witness ==
    /\ pc = "draw"
    /\ Len(firstThree) = 2
    /\ findIndex(chances, lastDraw) = firstThree[1]

\* C9: the originalTid of each of round-1 picks 1, 2 and 3 is a team that
\* did not make the playoffs.
C9_WinnersMissedPlayoffs ==
    pc = "done" =>
        \A k \in DOMAIN draftOrder :
            (draftOrder[k].round = 1 /\ draftOrder[k].pick <= 3)
                => ~madePlayoffs(TeamOf(draftOrder[k].originalTid))

(***************************************************************************)
(* Properties of updateChances.                                            *)
(***************************************************************************)
\* C10: updateChances with isFinal = true leaves the sum of the chances
\* unchanged (1000 for the standard table, so that the last cumulative sum
\* is 1000), keeps the length of the array and keeps every weight a whole
\* number.
C10_SumPreserved ==
    pc = "updated" =>
        /\ SumSeq(chances) = SumSeq(chancesTable)
        /\ SumSeq(chances) = 1000
        /\ cumsum(chances)[Len(chances)] = 1000
        /\ Len(chances) = Len(chancesTable)
        /\ \A i \in DOMAIN chances : chances[i] \in Nat

\* C10 witness: updateChances averaged a group of tied teams whose base
\* weights do not divide evenly, and a group that reaches past the end of
\* the table.
C10_Witness ==
    /\ pc = "updated"
    /\ Len(teams) > Len(chances)
    /\ teams[Len(chances)].winp = teams[Len(chances) + 1].winp
    /\ teams[Len(chances)].winp = teams[Len(chances) - 1].winp
    /\ \E i \in 1..(Len(chances) - 1) :
          /\ teams[i].winp = teams[i + 1].winp
          /\ chances[i] = chances[i + 1] + 1

\* The teams outside the playoffs that hold a lottery position and have the
\* win percentage of the team at position i.
TiedGroup(i) ==
    {j \in DOMAIN chances :
        ~madePlayoffs(teams[j]) /\ teams[j].winp = teams[i].winp}

\* C11: after lotterySort and updateChances(chances, teams, true) every
\* lottery team holds the average of the base weights at the positions of
\* the lottery teams with its win percentage: floor(S / k), plus one for
\* the first S mod k teams of the group; a team with a win percentage of
\* its own (k = 1) keeps its base weight.
C11_TiedTeamsAveraged ==
    pc = "updated" =>
        \A i \in DOMAIN chances :
            ~madePlayoffs(teams[i]) =>
                LET G == TiedGroup(i)
                    k == Cardinality(G)
                    S == SumSeq([n \in 1..k |->
                            chancesTable[(CHOOSE j \in G : \A h \in G : j <= h) + n - 1]])
                    first == CHOOSE j \in G : \A h \in G : j <= h
                IN  chances[i] = (S \div k) + (IF i - first < S % k THEN 1 ELSE 0)

(***************************************************************************)
(* Properties of genOrderFantasy.                                          *)
(***************************************************************************)
\* Entry i of round r of the stored draft order.
FantasyEntry(r, i) == draftOrder[(r - 1) * NumTeams + i]

\* C12: genOrderFantasy writes numTeams * 12 entries; each of rounds 1..12
\* holds every team once, at picks 1..numTeams in order; round r is round
\* r-1 reversed; every entry has tid = originalTid.
C12_SnakeOrder ==
    pcF = "done" =>
        /\ Len(draftOrder) = NumTeams * 12
        /\ \A r \in 1..12 :
              /\ \A i \in 1..NumTeams :
                    /\ FantasyEntry(r, i).round = r
                    /\ FantasyEntry(r, i).pick = i
                    /\ FantasyEntry(r, i).tid = FantasyEntry(r, i).originalTid
              /\ {FantasyEntry(r, i).tid : i \in 1..NumTeams} = 0..(NumTeams - 1)
              /\ r > 1 =>
                    \A i \in 1..NumTeams :
                        FantasyEntry(r, i).tid = FantasyEntry(r - 1, NumTeams + 1 - i).tid

\* C12 witness: an order was written from a shuffle that is not the
\* identity, and round 2 starts with the team that ended round 1.
C12_Witness ==
    /\ pcF = "done"
    /\ Len(draftOrder) = NumTeams * 12
    /\ FantasyEntry(1, 1).tid # 0
    /\ FantasyEntry(1, 1).tid # FantasyEntry(1, NumTeams).tid
    /\ FantasyEntry(2, 1).tid = FantasyEntry(1, NumTeams).tid

\* The reshuffles stay within the budget; a call that returned with a
\* position in 1..numTeams put the user's team at that pick of round 1 or
\* used the whole budget, and wrote a full order either way; a call with no
\* position, or one outside 1..numTeams, never reshuffled.
ReshufflesBounded ==
    /\ reshuffles <= 1000
    /\ pcF = "done" /\ positionGiven(position) =>
          /\ \/ FantasyEntry(1, position[1]).tid = userTid
             \/ reshuffles = 1000
          /\ Len(draftOrder) = NumTeams * 12
    /\ pcF # "idle" /\ ~positionGiven(position) => reshuffles = 0

\* C13: genOrderFantasy(position) reshuffles at most 1000 times and always
\* returns: every step of the loop either ends it or adds one to a count of
\* reshuffles that never passes 1000; the call
\* returns with the user's team at pick `position` of round 1, or with the
\* budget of 1000 reshuffles used up and the last shuffle kept; an undefined
\* position or one outside 1..numTeams causes no reshuffle.
C13_BoundedReshuffle ==
    /\ []ReshufflesBounded
    /\ [][pcF = "placing" => (pcF' = "done" \/ reshuffles' = reshuffles + 1)]_vars

\* C13 witness: a call returned after using the whole budget without
\* placing the user's team.
C13_Witness ==
    /\ pcF = "done"
    /\ positionGiven(position)
    /\ reshuffles = 1000
    /\ FantasyEntry(1, position[1]).tid # userTid

(***************************************************************************)
(* Properties of getRookieSalaries.                                        *)
(***************************************************************************)
\* C19: with contract limits other than the defaults (500, 20000) the table
\* getRookieSalaries returns is still in non-increasing order by pick index.
C19_RescaledNonIncreasing ==
    /\ rookieSalaries # <<>>
    /\ minContract # 500 \/ maxContract # 20000
    => \A i \in 1..(Len(rookieSalaries) - 1) :
          rookieSalaries[i] >= rookieSalaries[i + 1]

(***************************************************************************)
(* Properties of untilUserOrEnd and selectPlayer.                          *)
(***************************************************************************)
\* The picks the running or returned untilUserOrEnd call took off the queue.
Consumed == SubSeq(atCall.draftOrder, 1, Len(pids))

\* An untilUserOrEnd call is running or has just returned.
InCall == pcU \in {"auto", "afterDone", "restore", "setPhase", "returned"}

\* C14: a call takes the picks off the head of the queue in order, one per
\* selected player, and returns only with the queue empty or with a pick of
\* a user team at its head while autoPlaySeasons is 0; then that pick and
\* the picks behind it are what is left of the queue, in order, and no pick
\* of a user team was auto-selected; with autoPlaySeasons not 0 the call
\* returns only with the queue empty, the user's picks auto-selected too.
C14_StopsAtUserPickOrEnd ==
    InCall =>
        /\ Len(pids) <= Len(atCall.draftOrder)
        /\ draftOrder = SubSeq(atCall.draftOrder, Len(pids) + 1, Len(atCall.draftOrder))
        /\ \A k \in 1..Len(pids) :
              atCall.players[pids[k]].tid = PLAYER_UNDRAFTED
                 /\ players[pids[k]].tid = Consumed[k].tid
        /\ pcU = "returned" =>
              \/ draftOrder = <<>>
              \/ userTidsIncludes(Head(draftOrder).tid) /\ autoPlaySeasons = 0
        /\ autoPlaySeasons = 0 =>
              \A k \in 1..Len(pids) : ~userTidsIncludes(Consumed[k].tid)
        /\ autoPlaySeasons # 0 /\ pcU = "returned" =>
              /\ draftOrder = <<>>
              /\ Len(pids) = Len(atCall.draftOrder)

\* C14 witness: a call auto-selected a player and returned at a pick of the
\* user with another pick behind it.
C14_Witness ==
    /\ pcU = "returned"
    /\ Len(pids) >= 1
    /\ Len(draftOrder) >= 2
    /\ userTidsIncludes(Head(draftOrder).tid)
    /\ ~userTidsIncludes(Consumed[1].tid)

\* A call that began with an empty queue has returned.
ReturnedFromEmptyQueue == pcU = "returned" /\ atCall.draftOrder = <<>>

\* C15 as stated: a call that finds the queue empty returns an empty list,
\* changes no player record and makes the end-of-draft transition, which in
\* an ordinary draft is the advance to AFTER_DRAFT.
C15_EmptyQueueChangesNoPlayer ==
    ReturnedFromEmptyQueue =>
        /\ pids = <<>>
        /\ players = atCall.players
        /\ atCall.phase # PHASE_FANTASY_DRAFT => phase = PHASE_AFTER_DRAFT

\* What a call that found the queue empty leaves: no selection; in an
\* ordinary draft the players as they were and the phase AFTER_DRAFT; in a
\* fantasy draft the pool turned into free agents, the players set aside
\* back in the pool, and the saved phase.
EmptyQueueEndsDraft ==
    ReturnedFromEmptyQueue =>
        /\ pids = <<>>
        /\ atCall.phase # PHASE_FANTASY_DRAFT =>
              /\ players = atCall.players
              /\ phase = PHASE_AFTER_DRAFT
        /\ atCall.phase = PHASE_FANTASY_DRAFT =>
              /\ \A pid \in DOMAIN players :
                    /\ atCall.players[pid].tid = PLAYER_UNDRAFTED
                          => players[pid].tid = PLAYER_FREE_AGENT
                    /\ atCall.players[pid].tid = PLAYER_UNDRAFTED_FANTASY_TEMP
                          => players[pid].tid = PLAYER_UNDRAFTED
              /\ phase = atCall.nextPhase[1]

\* A step of untilUserOrEnd that moves the league into AFTER_DRAFT is taken
\* with the queue empty.
AfterDraftOnlyWhenEmpty ==
    pcU # "idle" /\ phase # PHASE_AFTER_DRAFT /\ phase' = PHASE_AFTER_DRAFT
        => draftOrder = <<>> /\ draftOrder' = <<>>

\* C15, amended: a call that finds the queue empty selects no player and
\* makes the end-of-draft transition; in an ordinary draft it changes no
\* player record and advances the phase to AFTER_DRAFT, which happens only
\* with the queue empty; in a fantasy draft the transition changes player
\* records (pool to free agents, players set aside back to the pool).
C15_EmptyQueueEndsDraft ==
    /\ []EmptyQueueEndsDraft
    /\ [][AfterDraftOnlyWhenEmpty]_vars

\* C15 witness: a call found the queue of an ordinary draft empty, with
\* prospects left, and returned in AFTER_DRAFT.
C15_Witness ==
    /\ ReturnedFromEmptyQueue
    /\ atCall.phase = PHASE_DRAFT
    /\ phase = PHASE_AFTER_DRAFT
    /\ \E pid \in DOMAIN players : players[pid].tid = PLAYER_UNDRAFTED

\* The call reached the end of a fantasy draft: this far into the end.
FantasyEndReached(pcs) ==
    /\ pcU \in pcs
    /\ atCall.phase = PHASE_FANTASY_DRAFT
    /\ draftOrder = <<>>

\* C16: at the end of a fantasy draft the players left in the undrafted pool
\* are made free agents first, the UNDRAFTED_FANTASY_TEMP players go back to
\* the pool second (and so are not free agents), and only then phase becomes
\* the saved nextPhase and nextPhase null; the phase is not AFTER_DRAFT.
C16_FantasyEndOrder ==
    /\ FantasyEndReached({"restore"}) =>
          \A pid \in DOMAIN players :
             /\ players[pid].tid # PLAYER_UNDRAFTED
             /\ atCall.players[pid].tid = PLAYER_UNDRAFTED_FANTASY_TEMP
                   => players[pid].tid = PLAYER_UNDRAFTED_FANTASY_TEMP
    /\ FantasyEndReached({"restore", "setPhase", "returned"}) =>
          \A pid \in DOMAIN players :
             atCall.players[pid].tid = PLAYER_UNDRAFTED /\ pid \notin Range(pids)
                => players[pid].tid = PLAYER_FREE_AGENT
    /\ FantasyEndReached({"setPhase", "returned"}) =>
          \A pid \in DOMAIN players :
             atCall.players[pid].tid = PLAYER_UNDRAFTED_FANTASY_TEMP
                => players[pid].tid = PLAYER_UNDRAFTED
    /\ FantasyEndReached({"auto", "afterDone", "restore", "setPhase"}) =>
          phase = PHASE_FANTASY_DRAFT /\ nextPhase = atCall.nextPhase
    /\ FantasyEndReached({"returned"}) =>
          /\ phase = atCall.nextPhase[1]
          /\ nextPhase = <<>>
          /\ phase # PHASE_AFTER_DRAFT

\* C16 witness: a fantasy draft ended with a player of the pool made a free
\* agent and a player set aside back in the pool.
C16_Witness ==
    /\ FantasyEndReached({"returned"})
    /\ Len(pids) >= 1
    /\ \E pid \in DOMAIN players :
          atCall.players[pid].tid = PLAYER_UNDRAFTED /\ players[pid].tid = PLAYER_FREE_AGENT
    /\ \E pid \in DOMAIN players :
          atCall.players[pid].tid = PLAYER_UNDRAFTED_FANTASY_TEMP
             /\ players[pid].tid = PLAYER_UNDRAFTED

\* C17: a draft record a selection has written is never changed again.
C17_DraftWrittenOnce ==
    [][\A pid \in DOMAIN players :
          players[pid].draft.round > 0 => players'[pid].draft = players[pid].draft]_vars

\* A step that takes the pick at the head of the queue and selects a player.
SelectionStep ==
    /\ draftOrder # <<>>
    /\ draftOrder' = Tail(draftOrder)
    /\ pcU' # "failed"

\* Outside the fantasy draft the selected player's contract runs to season
\* + 4 - round at the amount of the rookie table at index pick - 1 +
\* numTeams * (round - 1), an index inside the table.
RookieContractOnSelection ==
    SelectionStep /\ phase # PHASE_FANTASY_DRAFT =>
        LET pick == Head(draftOrder)
            table == getRookieSalaries(NumTeams, minContract, maxContract)
            i == pick.pick - 1 + NumTeams * (pick.round - 1)
        IN  /\ i >= 0 /\ i < Len(table)
            /\ Len(table) = NumTeams * 2
            /\ \A pid \in DOMAIN players :
                  players'[pid] # players[pid] =>
                     /\ players'[pid].contract.exp = season + (4 - pick.round)
                     /\ players'[pid].contract.exp - season = (IF pick.round = 1 THEN 3 ELSE 2)
                     /\ players'[pid].contract.amount = table[i + 1]
                     /\ players'[pid].tid = pick.tid

\* C18 as stated: the rookie contract outside the fantasy draft; in the
\* fantasy draft a selection sets tid and nothing else of the player.
C18_OnlyTidInFantasy ==
    [][/\ RookieContractOnSelection
       /\ SelectionStep /\ phase = PHASE_FANTASY_DRAFT =>
             \A pid \in DOMAIN players :
                players'[pid] # players[pid] =>
                   players'[pid] = [players[pid] EXCEPT !.tid = Head(draftOrder).tid]]_vars

\* C18, amended: the rookie contract outside the fantasy draft; in the
\* fantasy draft a selection leaves contract and draft record unchanged,
\* sets tid and, when the saved nextPhase is PLAYOFFS or earlier, adds a
\* stats row; nothing else of the player changes.
C18_RookieContract ==
    [][/\ RookieContractOnSelection
       /\ SelectionStep /\ phase = PHASE_FANTASY_DRAFT =>
             \A pid \in DOMAIN players :
                players'[pid] # players[pid] =>
                   /\ players'[pid].contract = players[pid].contract
                   /\ players'[pid].draft = players[pid].draft
                   /\ players'[pid] =
                         [players[pid] EXCEPT
                            !.tid = Head(draftOrder).tid,
                            !.statsRows =
                               IF nextPhase[1] <= PHASE_PLAYOFFS THEN @ + 1 ELSE @]]_vars

\* C18 witness: a round-2 pick gave a prospect a two-year contract at the
\* last entry of the table.
C18_Witness ==
    /\ phase = PHASE_DRAFT
    /\ pids # <<>>
    /\ \E pid \in Range(pids) :
          /\ players[pid].draft.round = 2
          /\ players[pid].draft.pick = NumTeams
          /\ players[pid].contract.exp = season + 2
          /\ players[pid].contract.amount =
                getRookieSalaries(NumTeams, minContract, maxContract)[NumTeams * 2]

\* C20: a call made right after a call has returned selects no player and
\* leaves the queue, the players, the phase and nextPhase as it found them.
C20_SecondCallChangesNothing ==
    pcU = "returned" /\ resumed =>
        /\ pids = <<>>
        /\ draftOrder = atCall.draftOrder
        /\ players = atCall.players
        /\ phase = atCall.phase
        /\ nextPhase = atCall.nextPhase

\* No element occurs twice in the sequence.
NoDuplicates(seq) ==
    \A j, k \in DOMAIN seq : j # k => seq[j] # seq[k]

\* C21: within one call no player is selected twice: pids has no duplicates
\* and one id per pick taken off the queue, the k-th id being the player who
\* went to the team of the k-th pick, and every selected player has left the
\* in-memory pool playersAll before the next pick is resolved.
C21_NoPlayerTwice ==
    InCall =>
        /\ NoDuplicates(pids)
        /\ Len(pids) = Len(atCall.draftOrder) - Len(draftOrder)
        /\ \A k \in 1..Len(pids) : players[pids[k]].tid = atCall.draftOrder[k].tid
        /\ NoDuplicates(playersAll)
        /\ Range(pids) \cap Range(playersAll) = {}
        /\ Range(pids) \cup Range(playersAll) =
              {pid \in DOMAIN atCall.players : atCall.players[pid].tid = PLAYER_UNDRAFTED}

\* C21 witness: a call returned after it selected two players, the second
\* from the pool the first had left.
C21_Witness ==
    /\ pcU = "returned"
    /\ Len(pids) >= 2
    /\ pids[1] # pids[2]
    /\ playersAll # <<>>

\* C22: every auto-selected pick resolves to a player of the remaining pool:
\* the call never fails on a selection index outside playersAll.
C22_SelectionInBounds == pcU # "failed"

\* C23: deleting the season's consumed picks and writing the new draft order
\* appear atomic: the store never holds fewer of the season's picks than
\* genOrder read while the draftOrder record is still the previous one.
C23_DeleteAndPutAtomic ==
    Len(draftPicksBySeason(draftPicks, season)) < Len(picksRead)
        => draftOrder = orderBuilt

\* C24: after lotterySort the array is a permutation of its input, every
\* non-playoff team precedes every playoff team, win percentage is
\* non-decreasing within each class, teams equal on both are in ascending
\* randVal, and the randVal values are the distinct values 0..numTeams-1.
C24_LotterySorted ==
    (pc = "draw" /\ firstThree = <<>>) =>
        /\ Len(teams) = Len(league)
        /\ \A i \in DOMAIN league :
              Cardinality({j \in DOMAIN teams :
                  /\ teams[j].tid = league[i].tid
                  /\ teams[j].winp = league[i].winp
                  /\ teams[j].playoffRoundsWon = league[i].playoffRoundsWon}) = 1
        /\ {teams[j].randVal : j \in DOMAIN teams} = 0..(NumTeams - 1)
        /\ \A i, j \in DOMAIN teams :
              i < j =>
                 /\ madePlayoffs(teams[i]) => madePlayoffs(teams[j])
                 /\ madePlayoffs(teams[i]) = madePlayoffs(teams[j])
                       => teams[i].winp <= teams[j].winp
                 /\ (/\ madePlayoffs(teams[i]) = madePlayoffs(teams[j])
                     /\ teams[i].winp = teams[j].winp)
                       => teams[i].randVal < teams[j].randVal

\* C24 witness: lotterySort moved a playoff team behind a non-playoff team
\* with a better record, and the shuffle decided a tie against the order of
\* the input.
C24_Witness ==
    /\ pc = "draw"
    /\ firstThree = <<>>
    /\ \E i, j \in DOMAIN teams :
          /\ i < j
          /\ ~madePlayoffs(teams[i])
          /\ madePlayoffs(teams[j])
          /\ teams[i].winp > teams[j].winp
    /\ \E i, j \in DOMAIN teams :
          /\ i < j
          /\ teams[i].winp = teams[j].winp
          /\ madePlayoffs(teams[i]) = madePlayoffs(teams[j])
          /\ teams[i].tid > teams[j].tid

\* The round-1 and round-2 pick numbers of team t in the order genOrder built.
PickOf(r, t) ==
    LET es == RoundEntries(orderBuilt, r)
    IN  es[CHOOSE k \in DOMAIN es : es[k].originalTid = t].pick

\* The teams that won the three lottery slots of the order genOrder built.
LotteryWinners ==
    LET es == RoundEntries(orderBuilt, 1)
    IN  {es[k].originalTid : k \in {k \in DOMAIN es : es[k].pick <= 3}}

\* Teams a and b have the same win percentage and the same playoff status.
SameClass(a, b) ==
    /\ a.winp = b.winp
    /\ madePlayoffs(a) = madePlayoffs(b)

\* C25: the round-2 entries are in ascending win percentage regardless of
\* playoff participation, ties by descending randVal; two teams with the
\* same win percentage and playoff status, neither a lottery winner, pick in
\* round 2 in the reverse of their relative order in round 1.
C25_RoundTwoReversed ==
    pc \in {"delete", "put", "done"} =>
        /\ \A i, j \in DOMAIN teams :
              PickOf(2, teams[i].tid) < PickOf(2, teams[j].tid) =>
                 /\ teams[i].winp <= teams[j].winp
                 /\ teams[i].winp = teams[j].winp
                       => teams[i].randVal > teams[j].randVal
        /\ \A i, j \in DOMAIN teams :
              (/\ i # j
               /\ SameClass(teams[i], teams[j])
               /\ teams[i].tid \notin LotteryWinners
               /\ teams[j].tid \notin LotteryWinners)
                 => (PickOf(1, teams[i].tid) < PickOf(1, teams[j].tid)
                        <=> PickOf(2, teams[i].tid) > PickOf(2, teams[j].tid))

\* C25 witness: genOrder finished with two tied teams outside the lottery
\* winners, and with a playoff team picking in round 2 before a non-playoff
\* team.
C25_Witness ==
    /\ pc = "done"
    /\ \E i, j \in DOMAIN teams :
          /\ i # j
          /\ SameClass(teams[i], teams[j])
          /\ teams[i].tid \notin LotteryWinners
          /\ teams[j].tid \notin LotteryWinners
          /\ PickOf(1, teams[i].tid) < PickOf(1, teams[j].tid)
    /\ \E i, j \in DOMAIN teams :
          /\ madePlayoffs(teams[i])
          /\ ~madePlayoffs(teams[j])
          /\ PickOf(2, teams[i].tid) < PickOf(2, teams[j].tid)

\* C26: a team that won one of the three lottery slots picks in round 2
\* after every tied team that did not win one.
C26_WinnersPickAfterTied ==
    pc \in {"delete", "put", "done"} =>
        \A i, j \in DOMAIN teams :
            (/\ teams[i].tid \in LotteryWinners
             /\ teams[j].tid \notin LotteryWinners
             /\ teams[i].winp = teams[j].winp)
               => PickOf(2, teams[i].tid) > PickOf(2, teams[j].tid)

\* C27: genOrder creates picks only when it reads no pick of the season:
\* then it adds exactly numTeams * 2 records, one per team for each of
\* rounds 1 and 2, owned by the team itself; when it reads at least one, the
\* store of picks is left as it was.
C27_PicksOnlyWhenNone ==
    [][(pc = "draw" /\ pc' = "delete") =>
          IF draftPicksBySeason(draftPicks, season) = <<>>
          THEN LET new == draftPicksBySeason(draftPicks', season)
               IN  /\ draftPicks' = draftPicks \o new
                   /\ Len(new) = NumTeams * 2
                   /\ \A t \in 0..(NumTeams - 1) : \A r \in {1, 2} :
                         Cardinality({k \in DOMAIN new :
                             /\ new[k].originalTid = t
                             /\ new[k].round = r}) = 1
                   /\ \A k \in DOMAIN new :
                         /\ new[k].tid = new[k].originalTid
                         /\ new[k].round \in {1, 2}
          ELSE draftPicks' = draftPicks]_vars

\* C27 witness: genOrder found no pick of the season among the picks of the
\* next one, and built the order from the numTeams * 2 picks it created.
C27_Witness ==
    /\ pc = "delete"
    /\ draftPicks[1].season = season + 1
    /\ Len(picksRead) = NumTeams * 2
    /\ picksRead = draftPicksBySeason(draftPicks, season)
    /\ \A k \in DOMAIN orderBuilt : orderBuilt[k].tid = orderBuilt[k].originalTid

\* The framing of a placement: the original team's lottery chance against
\* the chance of the slot it received.
Framing(own, slot) ==
    IF own < slot THEN "movedup"
    ELSE IF own > slot THEN "moveddown"
    ELSE "normal"

\* C28: genOrder logs one chance event for each of the 14 lottery positions
\* and one placement event for the owner of each of round-1 picks 1..14, none
\* for later picks; a placement is framed 'movedup' when the original team's
\* chance is lower than the chance of the slot it received, 'moveddown' when
\* it is higher, 'normal' when the two are equal.
C28_LotteryEventsFramed ==
    [][(pc = "draw" /\ pc' = "delete") =>
          LET logged == SubSeq(events', Len(events) + 1, Len(events'))
              chanceEvents == SelectSeq(logged, LAMBDA e : e.type = "chance")
              placements == SelectSeq(logged, LAMBDA e : e.type # "chance")
              round1 == RoundEntries(orderBuilt', 1)
              lotteryIndex(t) == CHOOSE i \in DOMAIN teams : teams[i].tid = t
          IN  /\ Len(chanceEvents) = Len(chancesTable)
              /\ \A i \in DOMAIN chanceEvents :
                    chanceEvents[i].number = chancePct[i]
              /\ Len(placements) = Len(chancesTable)
              /\ \A p \in DOMAIN placements :
                    /\ placements[p].number = p
                    /\ placements[p].tid = round1[p].tid
                    /\ placements[p].type =
                          Framing(chancePct[lotteryIndex(round1[p].originalTid)],
                                  chancePct[p])]_vars

====
